---- MODULE Spec2Model ----
(***************************************************************************)
(* A model of pyfreeleh's Google Sheets wrapper                            *)
(* (src/src/pyfreeleh/providers/google/sheet/wrapper.py):                  *)
(*   - GoogleSheetWrapper: insert_rows / overwrite_rows (append), clear,   *)
(*     update_rows, batch_update_rows, query and the query decoder         *)
(*     (_convert_query_result, _parse_cell);                               *)
(*   - GoogleSheetScratchpad: __init__ / _book_scratchpad_cell, execute,   *)
(*     close;                                                              *)
(*   - the row store that the integration test drives (its code is not in  *)
(*     the repository snapshot: it is modelled from the design document,   *)
(*     on top of the wrapper's operations).                                *)
(*                                                                         *)
(* Python values are records tagged with their type (field py), strings    *)
(* are sequences of one-character strings, a raised exception is a record  *)
(* (kind = "raise").  The remote spreadsheet service is modelled by its    *)
(* documented contract (the Svc... operators).                             *)
(***************************************************************************)
EXTENDS Integers, Sequences, FiniteSets

VARIABLES
    sheet,   \* the backing sheet: row number -> column number -> cell value
    pads,    \* the GoogleSheetScratchpad instances
    resp,    \* the parsed body of the last gviz query response
    last     \* the last call made by the client and its outcome

vars == <<sheet, pads, resp, last>>

(***************************************************************************)
(* Bounds                                                                  *)
(***************************************************************************)
MaxCells == 3       \* cells of a query response (columns times rows)
MaxRow == 4         \* rows of the backing sheet
MaxPads == 3        \* GoogleSheetScratchpad instances
MaxReqs == 2        \* requests of one batch_update_rows call

(***************************************************************************)
(* Python values and call outcomes                                         *)
(***************************************************************************)
PyNone == [py |-> "None"]
PyStr(chars) == [py |-> "str", chars |-> chars]
PyInt(n) == [py |-> "int", n |-> n]
\* a float read from a decimal literal: all its digits as a number, and the
\* number of digits after the point ("1.5" is digits 15, scale 1)
PyFloat(digits, scale) == [py |-> "float", digits |-> digits, scale |-> scale]
PyBool(b) == [py |-> "bool", b |-> b]
\* the marker of a key a dict does not hold (dicts are total functions over
\* the column ids, Absent where the dict has no entry)
Absent == [py |-> "absent"]

Return(v) == [kind |-> "return", value |-> v]
Raise(exc, arg) == [kind |-> "raise", exc |-> exc, arg |-> arg]

RECURSIVE SeqMax(_)
SeqMax(s) == IF s = <<>> THEN 0
             ELSE LET m == SeqMax(Tail(s)) IN IF Head(s) > m THEN Head(s) ELSE m

(***************************************************************************)
(* int() and float() of a decimal literal                                  *)
(***************************************************************************)
DigitChars == <<"0", "1", "2", "3", "4", "5", "6", "7", "8", "9">>
IsDigit(c) == \E i \in 1..10 : DigitChars[i] = c
DigitValue(c) == (CHOOSE i \in 1..10 : DigitChars[i] = c) - 1

RECURSIVE DigitsValue(_, _)
DigitsValue(chars, acc) ==
    IF chars = <<>> THEN acc
    ELSE DigitsValue(Tail(chars), 10 * acc + DigitValue(Head(chars)))

AllDigits(chars) == \A i \in 1..Len(chars) : IsDigit(chars[i])

\* int(f): a literal of digits only, else ValueError
PyIntOf(f) ==
    IF f # <<>> /\ AllDigits(f)
    THEN Return(PyInt(DigitsValue(f, 0)))
    ELSE Raise("ValueError", [fmt |-> "invalid literal for int()", lit |-> f])

\* float(f): digits with at most one point and at least one digit
PyFloatOf(f) ==
    LET points == {i \in 1..Len(f) : f[i] = "."}
        digits == SelectSeq(f, LAMBDA c : c # ".")
        scale == IF points = {} THEN 0 ELSE Len(f) - (CHOOSE i \in points : TRUE)
    IN  IF Cardinality(points) <= 1 /\ digits # <<>> /\ AllDigits(digits)
        THEN Return(PyFloat(DigitsValue(digits, 0), scale))
        ELSE Raise("ValueError", [fmt |-> "could not convert string to float", lit |-> f])

(***************************************************************************)
(* The gviz query response (the JSON inside freeleh({...}))                *)
(***************************************************************************)
JNull == [json |-> "null"]                       \* a cell that is JSON null
JEmpty == [json |-> "object", keys |-> {}]       \* a cell that is {}
\* a cell {"v": v} or {"v": v, "f": f}
JCell(v) == [json |-> "object", keys |-> {"v"}, v |-> v]
JCellF(v, f) == [json |-> "object", keys |-> {"v", "f"}, v |-> v, f |-> f]

\* Python's truth value of a parsed cell: None and {} are falsy
Truthy(cell) == cell # JNull /\ cell.keys # {}

ColIds == <<"A", "B", "C", "D", "E">>
ColTypes == {"boolean", "number", "string", "date", "datetime", "timeofday", "duration"}
SupportedTypes == {"boolean", "number", "string", "date", "datetime", "timeofday"}

\* a cell holding a value, as gviz renders it for a column of type typ
ValueCells(typ) ==
    CASE typ = "boolean" -> {JCellF(PyBool(TRUE), <<"T">>)}
      [] typ = "number" -> {JCellF(PyFloat(12, 0), <<"1", "2">>),
                            JCellF(PyFloat(15, 1), <<"1", ".", "5">>),
                            JCellF(PyFloat(1000, 0), <<"1", ",", "0", "0", "0">>)}
      [] typ = "string" -> {JCell(PyStr(<<"a">>))}
      [] OTHER -> {JCellF(PyStr(<<"D">>), <<"1", "-", "1">>)}

NullCells == {JNull, JEmpty, JCell(PyNone)}

CellsOf(typ) == NullCells \cup ValueCells(typ)

(***************************************************************************)
(* GoogleSheetWrapper._parse_cell                                          *)
(***************************************************************************)
GetItem(cell, key) ==
    IF key \in cell.keys THEN Return(cell[key]) ELSE Raise("KeyError", [key |-> key])

\* a faulty variant: the final raise is missing, the function falls off its end
\* and returns None
_parse_cell_no_raise(cell, col) ==
    IF ~Truthy(cell) \/ cell.v = PyNone THEN Return(PyNone)
    ELSE IF col.type \in {"boolean", "string"} THEN Return(cell.v)
    ELSE IF col.type = "number"
         THEN IF "f" \notin cell.keys THEN GetItem(cell, "f")
              ELSE IF \E i \in 1..Len(cell.f) : cell.f[i] = "."
                   THEN PyFloatOf(cell.f) ELSE PyIntOf(cell.f)
    ELSE IF col.type \in {"date", "datetime", "timeofday"}
         THEN IF "f" \notin cell.keys THEN GetItem(cell, "f")
              ELSE Return(PyStr(cell.f))
    ELSE Return(PyNone)

_parse_cell(cell, col) ==
    \* "We might get null if the current cell is empty."
    IF ~Truthy(cell) \/ cell.v = PyNone THEN Return(PyNone)
    ELSE LET typ == col.type IN
         IF typ = "boolean" THEN Return(cell.v)
         ELSE IF typ = "number"
              THEN IF "f" \notin cell.keys THEN GetItem(cell, "f")
                   ELSE IF \E i \in 1..Len(cell.f) : cell.f[i] = "."
                        THEN PyFloatOf(cell.f)
                        ELSE PyIntOf(cell.f)
         ELSE IF typ = "string" THEN Return(cell.v)
         ELSE IF typ \in {"date", "datetime", "timeofday"}
              THEN IF "f" \notin cell.keys THEN GetItem(cell, "f")
                   ELSE Return(PyStr(cell.f))
         ELSE Raise("ValueError", [fmt |-> "cell type {} is not supported", typ |-> typ])

(***************************************************************************)
(* GoogleSheetWrapper._convert_query_result                                *)
(***************************************************************************)
EmptyDict == [id \in {ColIds[i] : i \in 1..Len(ColIds)} |-> Absent]

\* the inner loop: the cells of one row from cell_idx on, into result_row
RECURSIVE ConvertRow(_, _, _, _)
ConvertRow(cells, cols, cell_idx, result_row) ==
    IF cell_idx > Len(cells) THEN Return(result_row)
    ELSE LET cell == cells[cell_idx] IN
         IF ~Truthy(cell)
         THEN ConvertRow(cells, cols, cell_idx + 1, result_row)   \* continue
         ELSE LET col == cols[cell_idx]
                  parsed == _parse_cell(cell, col)
              IN  IF parsed.kind = "raise" THEN parsed
                  ELSE ConvertRow(cells, cols, cell_idx + 1,
                                  [result_row EXCEPT ![col.id] = parsed.value])

\* the outer loop: the rows from row_idx on, appended to results
RECURSIVE ConvertRows(_, _, _, _)
ConvertRows(rows, cols, row_idx, results) ==
    IF row_idx > Len(rows) THEN Return(results)
    ELSE LET r == ConvertRow(rows[row_idx].c, cols, 1, EmptyDict) IN
         IF r.kind = "raise" THEN r
         ELSE ConvertRows(rows, cols, row_idx + 1, Append(results, r.value))

_convert_query_result(response) ==
    ConvertRows(response.table.rows, response.table.cols, 1, <<>>)

(***************************************************************************)
(* The decoder's specification: any response the service can send          *)
(***************************************************************************)
RECURSIVE ColsOf(_)
ColsOf(n) ==
    IF n = 0 THEN {<<>>}
    ELSE {Append(cols, [id |-> ColIds[n], type |-> t]) : cols \in ColsOf(n - 1), t \in ColTypes}

\* the cells of one row: one cell per column, of the column's type
RECURSIVE CellsOfRow(_, _)
CellsOfRow(cols, n) ==
    IF n = 0 THEN {<<>>}
    ELSE {Append(cells, c) : cells \in CellsOfRow(cols, n - 1), c \in CellsOf(cols[n].type)}

RECURSIVE RowsOf(_, _)
RowsOf(cols, k) ==
    IF k = 0 THEN {<<>>}
    ELSE {Append(rows, [c |-> cells]) :
            rows \in RowsOf(cols, k - 1), cells \in CellsOfRow(cols, Len(cols))}

\* the shapes of a response: n columns and k rows, of at most MaxCells cells
Shapes == {nk \in (1..MaxCells) \X (0..MaxCells) : nk[1] * nk[2] <= MaxCells}

NoCall == [op |-> "none"]

\* the client has looked at the outcome of its last call; it makes its next
\* call after that (the library is synchronous: one call at a time)
Forget ==
    /\ last # NoCall
    /\ last' = NoCall
    /\ UNCHANGED <<sheet, pads, resp>>

InitDecode ==
    /\ sheet = <<>>
    /\ pads = <<>>
    /\ \E nk \in Shapes : \E cols \in ColsOf(nk[1]) : \E rows \in RowsOf(cols, nk[2]) :
          resp = [table |-> [cols |-> cols, rows |-> rows]]
    /\ last = NoCall

\* query(): the service has answered with resp, which is decoded
Query ==
    /\ last = NoCall
    /\ last' = [op |-> "query", out |-> _convert_query_result(resp)]
    /\ UNCHANGED <<sheet, pads, resp>>

NextDecode == Query

SpecDecode == InitDecode /\ [][NextDecode]_vars

(***************************************************************************)
(* Claims about the decoder                                                *)
(***************************************************************************)
RespCols == resp.table.cols
RespRows == resp.table.rows
CellAt(i, j) == RespRows[i].c[j]
CellPlaces == {ij \in (1..Len(RespRows)) \X (1..Len(RespCols)) : TRUE}

\* a null or empty cell: JSON null, {} or {"v": null}
IsNullCell(cell) == cell = JNull \/ cell.keys = {} \/ cell.v = PyNone

\* a non-null cell whose column type the decoder does not know
Offending(ij) ==
    /\ ~IsNullCell(CellAt(ij[1], ij[2]))
    /\ RespCols[ij[2]].type \notin SupportedTypes

\* a number cell whose formatted text is no plain decimal numeral
BadNumber(ij) ==
    LET cell == CellAt(ij[1], ij[2]) IN
    /\ ~IsNullCell(cell)
    /\ RespCols[ij[2]].type = "number"
    /\ \E k \in 1..Len(cell.f) : ~IsDigit(cell.f[k]) /\ cell.f[k] # "."

\* decoding order: row by row, left to right
Before(a, b) == a[1] < b[1] \/ (a[1] = b[1] /\ a[2] < b[2])

\* C7: a null or empty cell decodes to a null value for its column: the
\* returned row holds an entry for that column whose value is None, for
\* every declared column type.
C7_NullCellDecodesToNull ==
    (last.op = "query" /\ last.out.kind = "return") =>
        \A ij \in CellPlaces :
            IsNullCell(CellAt(ij[1], ij[2])) =>
                last.out.value[ij[1]][RespCols[ij[2]].id] = PyNone

\* C8 as stated: a non-null cell of an unknown column type makes decoding
\* fail with an UnsupportedTypeError that names the type.
C8_UnsupportedTypeError ==
    (last.op = "query" /\ \E ij \in CellPlaces : Offending(ij)) =>
        /\ last.out.kind = "raise"
        /\ last.out.exc = "UnsupportedTypeError"

\* C8 as amended: such a response is never decoded into rows: decoding
\* raises, and when the offending cell is the first cell that cannot be
\* decoded the exception is a ValueError "cell type T is not supported"
\* naming the cell's column type T.
C8_UnsupportedTypeValueError ==
    \A ij \in CellPlaces :
        (last.op = "query" /\ Offending(ij)) =>
            /\ last.out.kind = "raise"
            /\ (\A e \in CellPlaces : Before(e, ij) => ~Offending(e) /\ ~BadNumber(e)) =>
                   last.out = Raise("ValueError",
                                    [fmt |-> "cell type {} is not supported",
                                     typ |-> RespCols[ij[2]].type])

\* the case of C8: the offending cell comes after a cell that decoded
C8_Witness ==
    /\ last.op = "query"
    /\ last.out.kind = "raise"
    /\ last.out.exc = "ValueError"
    /\ \E ij \in CellPlaces :
          /\ Offending(ij)
          /\ \E e \in CellPlaces :
                Before(e, ij) /\ ~IsNullCell(CellAt(e[1], e[2])) /\ ~BadNumber(e)
                              /\ ~Offending(e)

(***************************************************************************)
(* A1Range (pyfreeleh.providers.google.sheet.base).  A range is a sheet    *)
(* name with an optional start cell and an optional end cell; its notation *)
(* is the text Sheet, Sheet!A1 or Sheet!A1:B2, here a sequence of tokens.  *)
(***************************************************************************)
ColLetters == <<"A", "B">>
RowNumerals == <<"1", "2", "3", "4", "5", "6", "7", "8", "9">>
NoRef == [col |-> 0, row |-> 0]
Ref(col, row) == [col |-> col, row |-> row]
A1Range(sheet_name, start, end) ==
    [a1 |-> "range", sheet_name |-> sheet_name, start |-> start, end |-> end]

IsColLetter(t) == \E i \in 1..Len(ColLetters) : ColLetters[i] = t
IsRowNumeral(t) == \E i \in 1..Len(RowNumerals) : RowNumerals[i] = t
ColOf(t) == CHOOSE i \in 1..Len(ColLetters) : ColLetters[i] = t
RowOf(t) == CHOOSE i \in 1..Len(RowNumerals) : RowNumerals[i] = t

\* str(range)
A1Str(r) ==
    IF r.start = NoRef THEN <<r.sheet_name>>
    ELSE <<r.sheet_name, "!", ColLetters[r.start.col], RowNumerals[r.start.row]>>
         \o (IF r.end = NoRef THEN <<>>
             ELSE <<":", ColLetters[r.end.col], RowNumerals[r.end.row]>>)

\* A1Range.from_notation(text)
A1FromNotation(n) ==
    IF Len(n) = 1 THEN Return(A1Range(n[1], NoRef, NoRef))
    ELSE IF Len(n) \in {4, 7} /\ n[2] = "!" /\ IsColLetter(n[3]) /\ IsRowNumeral(n[4])
    THEN IF Len(n) = 4
         THEN Return(A1Range(n[1], Ref(ColOf(n[3]), RowOf(n[4])), NoRef))
         ELSE IF n[5] = ":" /\ IsColLetter(n[6]) /\ IsRowNumeral(n[7])
              THEN Return(A1Range(n[1], Ref(ColOf(n[3]), RowOf(n[4])),
                                  Ref(ColOf(n[6]), RowOf(n[7]))))
              ELSE Raise("ParseError", [text |-> n])
    ELSE Raise("ParseError", [text |-> n])

\* str(x) of what execute and close hold as the cell: a range, or None
StrOf(x) == IF x = PyNone THEN <<"N", "o", "n", "e">> ELSE A1Str(x)

(***************************************************************************)
(* The spreadsheet service (spreadsheets.values of the Sheets API), by its *)
(* contract: a sheet is a grid of cells; values are written as if typed    *)
(* (USER_ENTERED) and echoed as displayed (FORMATTED_VALUE).               *)
(***************************************************************************)
Columns == <<"name", "age">>      \* the columns of the sheet
NCols == Len(Columns)
Blank == [cell |-> "blank"]
BlankRow == [c \in 1..NCols |-> Blank]
BlankSheet == [r \in 1..MaxRow |-> BlankRow]
SheetName == "sheet"

IsBlankRow(row) == \A c \in 1..NCols : row[c] = Blank
\* the last row of the last table of the sheet, 0 in a blank sheet
LastDataRow(sh) == SeqMax([r \in 1..MaxRow |-> IF IsBlankRow(sh[r]) THEN 0 ELSE r])

RECURSIVE NatChars(_)
NatChars(n) == IF n < 10 THEN <<DigitChars[n + 1]>>
               ELSE NatChars(n \div 10) \o <<DigitChars[(n % 10) + 1]>>

\* the terms of the formula text after "=": digits separated by "+"
RECURSIVE FormulaSum(_, _, _)
FormulaSum(chars, term, acc) ==
    IF chars = <<>> THEN acc + term
    ELSE IF Head(chars) = "+" THEN FormulaSum(Tail(chars), 0, acc + term)
    ELSE FormulaSum(Tail(chars), 10 * term + DigitValue(Head(chars)), acc)

IsFormula(chars) ==
    /\ Len(chars) >= 2
    /\ chars[1] = "="
    /\ \A i \in 2..Len(chars) : IsDigit(chars[i]) \/ chars[i] = "+"

\* what a cell holds after a value is typed into it: a formula is
\* evaluated, a numeral becomes a number, None leaves the cell as it was
SvcUserEntered(old, v) ==
    IF v = PyNone THEN old
    ELSE IF v.py = "str"
         THEN IF IsFormula(v.chars) THEN PyInt(FormulaSum(Tail(v.chars), 0, 0))
              ELSE IF v.chars # <<>> /\ AllDigits(v.chars) THEN PyInt(DigitsValue(v.chars, 0))
              ELSE IF v.chars = <<>> THEN Blank
              ELSE v
         ELSE v

\* the displayed text of a cell
SvcFormatted(cell) ==
    IF cell = Blank THEN <<>>
    ELSE IF cell.py = "int" THEN NatChars(cell.n)
    ELSE IF cell.py = "bool" THEN (IF cell.b THEN <<"T", "R", "U", "E">> ELSE <<"F", "A", "L", "S", "E">>)
    ELSE cell.chars

\* values written into the grid with their first cell at (row, col)
WriteAt(sh, row, col, values) ==
    [r \in 1..MaxRow |->
        [c \in 1..NCols |->
            IF /\ r \in row..(row + Len(values) - 1)
               /\ c \in col..(col + Len(values[r - row + 1]) - 1)
            THEN SvcUserEntered(sh[r][c], values[r - row + 1][c - col + 1])
            ELSE sh[r][c]]]

ValuesWidth(values) == SeqMax([i \in 1..Len(values) |-> Len(values[i])])
ValuesCells(values) ==
    LET RECURSIVE Sum(_)
        Sum(i) == IF i = 0 THEN 0 ELSE Len(values[i]) + Sum(i - 1)
    IN  Sum(Len(values))

\* the range text and displayed values of the written block
WrittenRange(row, col, values) ==
    LET w == ValuesWidth(values) IN
    A1Str(A1Range(SheetName, Ref(col, row),
                  IF Len(values) = 1 /\ w = 1 THEN NoRef
                  ELSE Ref(col + w - 1, row + Len(values) - 1)))
WrittenValues(sh, row, col, values) ==
    [i \in 1..Len(values) |->
        [j \in 1..Len(values[i]) |-> PyStr(SvcFormatted(sh[row + i - 1][col + j - 1]))]]

FitsAt(row, col, values) ==
    /\ values # <<>>
    /\ \A i \in 1..Len(values) : values[i] # <<>>
    /\ row >= 1 /\ col >= 1
    /\ row + Len(values) - 1 <= MaxRow
    /\ col + ValuesWidth(values) - 1 <= NCols

\* values.append: the rows go after the last row of the table found in the
\* range (a whole sheet here), from the table's first column; mode
\* INSERT_ROWS inserts new rows for them, OVERWRITE writes over the (blank)
\* cells after the table
SvcAppend(sh, range, mode, values) ==
    LET row == LastDataRow(sh) + 1
        after == WriteAt(sh, row, 1, values)
    IN  [sheet |-> after,
         resp |-> [updates |->
                    [updatedRows |-> Len(values),
                     updatedColumns |-> ValuesWidth(values),
                     updatedCells |-> ValuesCells(values),
                     updatedData |-> [range |-> WrittenRange(row, 1, values),
                                      values |-> WrittenValues(after, row, 1, values)]]]]

\* the first cell of a range (A1 of a range that names only the sheet)
StartOf(r) == IF r.start = NoRef THEN Ref(1, 1) ELSE r.start

\* values.update: the values replace the cells from the range's first cell
SvcUpdate(sh, range, values) ==
    LET at == StartOf(A1FromNotation(range).value)
        after == WriteAt(sh, at.row, at.col, values)
    IN  [sheet |-> after,
         resp |-> [updatedRange |-> WrittenRange(at.row, at.col, values),
                   updatedRows |-> Len(values),
                   updatedColumns |-> ValuesWidth(values),
                   updatedCells |-> ValuesCells(values),
                   updatedData |-> [values |-> WrittenValues(after, at.row, at.col, values)]]]

\* a request the service rejects: a range that is no A1 notation of a cell
\* of the sheet
SvcRejects(range) ==
    LET r == A1FromNotation(range) IN
    \/ r.kind = "raise"
    \/ r.value.sheet_name # SheetName
    \/ r.value.start # NoRef /\ r.value.start.row > MaxRow
    \/ r.value.end # NoRef /\ r.value.end.row > MaxRow

\* a write the service rejects: a bad range, or values that leave the grid
SvcRejectsWrite(range, values) ==
    \/ SvcRejects(range)
    \/ LET at == StartOf(A1FromNotation(range).value) IN ~FitsAt(at.row, at.col, values)

\* the cells a range text names: the sheet, one cell, or a rectangle
CellsOfRange(range) ==
    LET r == A1FromNotation(range).value IN
    IF r.start = NoRef THEN (1..MaxRow) \X (1..NCols)
    ELSE IF r.end = NoRef THEN {<<r.start.row, r.start.col>>}
    ELSE (r.start.row..r.end.row) \X (r.start.col..r.end.col)

\* values.batchClear: the cells of the ranges are blanked
SvcBatchClear(sh, ranges) ==
    [r \in 1..MaxRow |->
        [c \in 1..NCols |->
            IF \E i \in 1..Len(ranges) : <<r, c>> \in CellsOfRange(ranges[i])
            THEN Blank ELSE sh[r][c]]]

(***************************************************************************)
(* GoogleSheetWrapper: insert_rows, overwrite_rows, clear, update_rows     *)
(* Each returns [sheet |-> the sheet after the call, out |-> its outcome]. *)
(***************************************************************************)
APPEND_MODE_OVERWRITE == "OVERWRITE"
APPEND_MODE_INSERT == "INSERT_ROWS"

InsertRowsResult(updated_range, updated_rows, updated_columns, updated_cells, inserted_values) ==
    [updated_range |-> updated_range, updated_rows |-> updated_rows,
     updated_columns |-> updated_columns, updated_cells |-> updated_cells,
     inserted_values |-> inserted_values]

UpdateRowsResult(updated_range, updated_rows, updated_columns, updated_cells, updated_values) ==
    [updated_range |-> updated_range, updated_rows |-> updated_rows,
     updated_columns |-> updated_columns, updated_cells |-> updated_cells,
     updated_values |-> updated_values]

_insert_rows(sh, a1_range, values, mode) ==
    LET svc == SvcAppend(sh, StrOf(a1_range), mode, values)
        u == svc.resp.updates
    IN  [sheet |-> svc.sheet,
         out |-> Return(InsertRowsResult(A1FromNotation(u.updatedData.range).value,
                                         u.updatedRows, u.updatedColumns, u.updatedCells,
                                         u.updatedData.values))]

insert_rows(sh, range, values) == _insert_rows(sh, range, values, APPEND_MODE_INSERT)

overwrite_rows(sh, range, values) == _insert_rows(sh, range, values, APPEND_MODE_OVERWRITE)

\* a faulty variant: only the first range is sent to the service
clear_first_only(sh, ranges) ==
    LET texts == [i \in 1..(IF ranges = <<>> THEN 0 ELSE 1) |-> StrOf(ranges[i])] IN
    IF \E i \in 1..Len(texts) : SvcRejects(texts[i])
    THEN [sheet |-> sh, out |-> Raise("HttpError", [ranges |-> texts])]
    ELSE [sheet |-> SvcBatchClear(sh, texts), out |-> Return(PyNone)]

clear(sh, ranges) ==
    LET texts == [i \in 1..Len(ranges) |-> StrOf(ranges[i])] IN
    IF \E i \in 1..Len(texts) : SvcRejects(texts[i])
    THEN [sheet |-> sh, out |-> Raise("HttpError", [ranges |-> texts])]
    ELSE [sheet |-> SvcBatchClear(sh, texts), out |-> Return(PyNone)]

update_rows(sh, a1_range, values) ==
    IF SvcRejectsWrite(StrOf(a1_range), values)
    THEN [sheet |-> sh, out |-> Raise("HttpError", [ranges |-> <<StrOf(a1_range)>>])]
    ELSE LET svc == SvcUpdate(sh, StrOf(a1_range), values) IN
         [sheet |-> svc.sheet,
          out |-> Return(UpdateRowsResult(A1FromNotation(svc.resp.updatedRange).value,
                                          svc.resp.updatedRows, svc.resp.updatedColumns,
                                          svc.resp.updatedCells,
                                          svc.resp.updatedData.values))]

(***************************************************************************)
(* GoogleSheetScratchpad                                                   *)
(***************************************************************************)
Pads == 1..MaxPads
SCRATCHPAD_BOOKED_VALUE == PyStr(<<"B", "O", "O", "K", "E", "D">>)
Formulas == {PyStr(<<"=", "1", "+", "2">>), PyStr(<<"=", "7">>)}

\* the attributes __init__ gives an instance: execute and close read
\* self._wrapper and self._spreadsheet_id, which no statement sets
PadAttributes == {"_session", "_scratchpad_cell"}
GetAttr(name) ==
    IF name \in PadAttributes THEN Return(name) ELSE Raise("AttributeError", [name |-> name])

\* an instance: whether __init__ has returned, the attribute
\* _scratchpad_cell, and two history fields the claims speak of: booked is
\* the range the service reported when the instance booked its cell, and
\* closed is whether close() has been called
NoPad == [constructed |-> FALSE, _scratchpad_cell |-> Absent, booked |-> Absent,
          closed |-> FALSE]

\* _book_scratchpad_cell: assigned is what the method stores in
\* self._scratchpad_cell, ret is what it returns (it has no return statement)
_book_scratchpad_cell(sh) ==
    LET a1_range == A1FromNotation(<<SheetName>>).value
        result == overwrite_rows(sh, a1_range, <<<<SCRATCHPAD_BOOKED_VALUE>>>>)
    IN  [sheet |-> result.sheet,
         assigned |-> result.out.value.updated_range,
         ret |-> PyNone]

\* GoogleSheetScratchpad(session): __init__ stores the return value of
\* _book_scratchpad_cell in self._scratchpad_cell, over what the method stored
Construct(p) ==
    /\ last = NoCall
    /\ ~pads[p].constructed
    /\ LastDataRow(sheet) < MaxRow
    /\ LET b == _book_scratchpad_cell(sheet) IN
       /\ sheet' = b.sheet
       /\ pads' = [pads EXCEPT ![p] = [constructed |-> TRUE, _scratchpad_cell |-> b.ret,
                                       booked |-> b.assigned, closed |-> FALSE]]
       /\ last' = [op |-> "construct", pad |-> p, mode |-> APPEND_MODE_OVERWRITE,
                   before |-> sheet, out |-> Return(PyNone)]
    /\ UNCHANGED resp

execute(sh, pad, formula) ==
    LET w == GetAttr("_wrapper") IN
    IF w.kind = "raise" THEN [sheet |-> sh, out |-> w]
    ELSE LET result == update_rows(sh, pad._scratchpad_cell, <<<<formula>>>>) IN
         IF result.out.kind = "raise" THEN result
         ELSE [sheet |-> result.sheet, out |-> Return(result.out.value.updated_values[1][1])]

Execute(p, formula) ==
    /\ last = NoCall
    /\ pads[p].constructed
    /\ LET r == execute(sheet, pads[p], formula) IN
       /\ sheet' = r.sheet
       /\ last' = [op |-> "execute", pad |-> p, formula |-> formula,
                   before |-> sheet, out |-> r.out]
    /\ UNCHANGED <<pads, resp>>

close(sh, pad) ==
    LET w == GetAttr("_wrapper") IN
    IF w.kind = "raise" THEN [sheet |-> sh, out |-> w]
    ELSE clear(sh, <<pad._scratchpad_cell>>)

Close(p) ==
    /\ last = NoCall
    /\ pads[p].constructed
    /\ LET r == close(sheet, pads[p]) IN
       /\ sheet' = r.sheet
       /\ last' = [op |-> "close", pad |-> p, before |-> sheet, out |-> r.out]
    /\ pads' = [pads EXCEPT ![p].closed = TRUE]
    /\ UNCHANGED resp

InitPad ==
    /\ sheet = BlankSheet
    /\ pads = [p \in Pads |-> NoPad]
    /\ resp = <<>>
    /\ last = NoCall

NextPad ==
    \/ \E p \in Pads : Construct(p)
    \/ \E p \in Pads, f \in Formulas : Execute(p, f)
    \/ \E p \in Pads : Close(p)
    \/ Forget

SpecPad == InitPad /\ [][NextPad]_vars

(***************************************************************************)
(* The claims about the scratchpad                                         *)
(***************************************************************************)
Live(p) == pads[p].constructed /\ ~pads[p].closed

\* C1: once close() has been called on a booked scratchpad, every later
\* execute(formula) fails with an InvalidOperationError and writes nothing
\* to the sheet.
C1_ExecuteAfterCloseIsInvalid ==
    (last.op = "execute" /\ pads[last.pad].closed) =>
        /\ last.out.kind = "raise"
        /\ last.out.exc = "InvalidOperationError"
        /\ sheet = last.before

\* C2: on a booked scratchpad that is not closed, execute(formula) writes
\* the formula into exactly the booked cell, in place, returns the value the
\* service displays for that cell, and leaves the booked cell's identity
\* unchanged.
C2_ExecuteWritesBookedCell ==
    (last.op = "execute" /\ ~pads[last.pad].closed) =>
        LET at == pads[last.pad].booked.start IN
        /\ last.out.kind = "return"
        /\ sheet = WriteAt(last.before, at.row, at.col, <<<<last.formula>>>>)
        /\ last.out.value = PyStr(SvcFormatted(sheet[at.row][at.col]))
        /\ pads[last.pad]._scratchpad_cell = pads[last.pad].booked

\* C9: once the constructor has returned, the scratchpad's recorded cell is
\* the range the service reported for the overwrite-mode insert of
\* "BOOKED": a definite single cell, never a missing reference.
C9_ConstructorRecordsBookedCell ==
    \A p \in Pads :
        pads[p].constructed =>
            /\ pads[p]._scratchpad_cell = pads[p].booked
            /\ pads[p]._scratchpad_cell # PyNone
            /\ pads[p].booked.start # NoRef /\ pads[p].booked.end = NoRef

\* C10: no two scratchpads that are booked and not yet closed hold the same
\* cell: each booked cell is held by exactly the instance that booked it.
C10_BookedCellsAreExclusive ==
    \A p \in Pads :
        Live(p) =>
            {q \in Pads : Live(q) /\ pads[q]._scratchpad_cell = pads[p]._scratchpad_cell} = {p}

(***************************************************************************)
(* GoogleSheetWrapper.batch_update_rows                                    *)
(***************************************************************************)
BatchUpdateRowsRequest(range, values) == [range |-> range, values |-> values]

\* values.batchUpdate: every entry of data is written, in order, or none is
SvcBatchRejects(data) == \E i \in 1..Len(data) : SvcRejectsWrite(data[i].range, data[i].values)

RECURSIVE SvcBatchApply(_, _, _, _)
SvcBatchApply(sh, data, i, responses) ==
    IF i > Len(data) THEN [sheet |-> sh, resp |-> [responses |-> responses]]
    ELSE LET u == SvcUpdate(sh, data[i].range, data[i].values) IN
         SvcBatchApply(u.sheet, data, i + 1, Append(responses, u.resp))

SvcBatchUpdate(sh, data) == SvcBatchApply(sh, data, 1, <<>>)

\* the loop over resp["responses"]
RECURSIVE BatchResults(_, _, _)
BatchResults(responses, i, results) ==
    IF i > Len(responses) THEN results
    ELSE BatchResults(responses, i + 1,
            Append(results,
                   UpdateRowsResult(A1FromNotation(responses[i].updatedRange).value,
                                    responses[i].updatedRows, responses[i].updatedColumns,
                                    responses[i].updatedCells,
                                    responses[i].updatedData.values)))

BatchData(requests) ==
    [i \in 1..Len(requests) |-> [range |-> StrOf(requests[i].range),
                                 values |-> requests[i].values]]

\* a faulty variant: the loop stops one response early
batch_update_rows_skips_last(sh, requests, fault) ==
    IF fault \/ SvcBatchRejects(BatchData(requests))
    THEN [sheet |-> sh, out |-> Raise("HttpError", [data |-> BatchData(requests)])]
    ELSE LET svc == SvcBatchUpdate(sh, BatchData(requests)) IN
         [sheet |-> svc.sheet,
          out |-> Return(BatchResults(SubSeq(svc.resp.responses, 1,
                                             Len(svc.resp.responses) - 1), 1, <<>>))]

\* a faulty variant: only the first request is sent
batch_update_rows_first_only(sh, requests, fault) ==
    LET data == SubSeq(BatchData(requests), 1, 1) IN
    IF fault \/ SvcBatchRejects(data)
    THEN [sheet |-> sh, out |-> Raise("HttpError", [data |-> data])]
    ELSE LET svc == SvcBatchUpdate(sh, data) IN
         [sheet |-> svc.sheet, out |-> Return(BatchResults(svc.resp.responses, 1, <<>>))]

\* fault: the call fails in transport (the service raises, nothing is written)
batch_update_rows(sh, requests, fault) ==
    LET data == BatchData(requests) IN
    IF fault \/ SvcBatchRejects(data)
    THEN [sheet |-> sh, out |-> Raise("HttpError", [data |-> data])]
    ELSE LET svc == SvcBatchUpdate(sh, data) IN
         [sheet |-> svc.sheet, out |-> Return(BatchResults(svc.resp.responses, 1, <<>>))]

\* the requests of the batch specification: one row of one or two values,
\* written at A1, A2 or B2 (two values at B2 leave the grid)
BatchValues == {<<<<PyStr(<<"x">>)>>>>, <<<<PyStr(<<"x">>), PyInt(7)>>>>}
BatchCells == {Ref(1, 1), Ref(1, 2), Ref(2, 2)}
BatchRequests ==
    {BatchUpdateRowsRequest(A1Range(SheetName, at, NoRef), v) :
        at \in BatchCells, v \in BatchValues}

RECURSIVE SeqsOf(_, _)
SeqsOf(S, n) == IF n = 0 THEN {<<>>}
                ELSE {Append(q, x) : q \in SeqsOf(S, n - 1), x \in S}

InitBatch ==
    /\ sheet = BlankSheet
    /\ pads = <<>>
    /\ resp = <<>>
    /\ last = NoCall

BatchUpdateRows(requests, fault) ==
    /\ last = NoCall
    /\ LET r == batch_update_rows(sheet, requests, fault) IN
       /\ sheet' = r.sheet
       /\ last' = [op |-> "batch_update_rows", requests |-> requests, before |-> sheet,
                   out |-> r.out]
    /\ UNCHANGED <<pads, resp>>

NextBatch ==
    \/ \E n \in 0..MaxReqs : \E requests \in SeqsOf(BatchRequests, n) : \E fault \in BOOLEAN :
          BatchUpdateRows(requests, fault)
    \/ Forget

SpecBatch == InitBatch /\ [][NextBatch]_vars

\* C6: batch_update_rows returns exactly one UpdateRowsResult per submitted
\* request, in the order submitted: the i-th result describes the range
\* written for the i-th request; a shorter list is never returned.
C6_OneResultPerRequest ==
    (last.op = "batch_update_rows" /\ last.out.kind = "return") =>
        /\ Len(last.out.value) = Len(last.requests)
        /\ \A i \in 1..Len(last.requests) :
              /\ last.out.value[i].updated_range.sheet_name = last.requests[i].range.sheet_name
              /\ last.out.value[i].updated_range.start = last.requests[i].range.start
              /\ last.out.value[i].updated_cells = Len(last.requests[i].values[1])

\* the case of C6: a batch of several requests for different cells succeeded
C6_Witness ==
    /\ last.op = "batch_update_rows"
    /\ last.out.kind = "return"
    /\ Len(last.requests) >= 2
    /\ last.requests[1].range # last.requests[2].range
    /\ Len(last.out.value) = Len(last.requests)

(***************************************************************************)
(* GoogleSheetWrapper.query: the gviz endpoint answers the query, the      *)
(* answer is decoded by _convert_query_result                              *)
(***************************************************************************)
NoFilter == [op |-> "all"]
Filter(col, op, arg) == [op |-> op, col |-> col, arg |-> arg]

\* a filter "col = arg" or "col < arg" on a row's cells
CellHolds(cell, f) ==
    IF f.op = "=" THEN cell = f.arg
    ELSE cell # Blank /\ cell.py = "int" /\ cell.n < f.arg.n
FilterHolds(cells, f) == f = NoFilter \/ CellHolds(cells[f.col], f)

\* the type gviz declares for a column: number when its data cells are
\* numbers, string otherwise
ColumnType(sh, c) ==
    IF /\ \E r \in 2..MaxRow : sh[r][c] # Blank
       /\ \A r \in 2..MaxRow : sh[r][c] # Blank => sh[r][c].py = "int"
    THEN "number" ELSE "string"

GvizCell(cell) ==
    IF cell = Blank THEN JNull
    ELSE IF cell.py = "int" THEN JCellF(PyFloat(cell.n, 0), SvcFormatted(cell))
    ELSE JCell(cell)

RECURSIVE SortedSeq(_)
SortedSeq(S) ==
    IF S = {} THEN <<>>
    ELSE LET m == CHOOSE x \in S : \A y \in S : x <= y IN <<m>> \o SortedSeq(S \ {m})

\* the data rows (below the header) that hold a value and pass the filter
MatchingRows(sh, f) ==
    SortedSeq({r \in 2..MaxRow : ~IsBlankRow(sh[r]) /\ FilterHolds(sh[r], f)})

\* the answer to "select <columns> where <filter>", headers = 1
SvcQuery(sh, select, f) ==
    LET rows == MatchingRows(sh, f) IN
    [table |->
        [cols |-> [j \in 1..Len(select) |-> [id |-> ColLetters[select[j]],
                                             type |-> ColumnType(sh, select[j])]],
         rows |-> [i \in 1..Len(rows) |->
                     [c |-> [j \in 1..Len(select) |-> GvizCell(sh[rows[i]][select[j]])]]]]]

query(sh, select, f) == _convert_query_result(SvcQuery(sh, select, f))

(***************************************************************************)
(* The row store (GoogleSheetRowStore): a table is a sheet whose first row *)
(* is the header; insert appends rows, select queries, update and delete   *)
(* resolve the matching rows and then write or clear them.                 *)
(***************************************************************************)
ColumnSet == {Columns[c] : c \in 1..NCols}
ColumnChars == <<(<<"n", "a", "m", "e">>), (<<"a", "g", "e">>)>>
HeaderRow == [c \in 1..NCols |-> PyStr(ColumnChars[c])]
EmptyTable == [r \in 1..MaxRow |-> IF r = 1 THEN HeaderRow ELSE BlankRow]
WholeSheet == A1Range(SheetName, NoRef, NoRef)

\* a row mapping as the list of its values in column order
RowValues(row) ==
    [c \in 1..NCols |-> IF row[Columns[c]] = Absent THEN PyNone ELSE row[Columns[c]]]

\* a decoded row (keyed by column letter) as a row mapping (keyed by name)
NamedRow(decoded, select) ==
    [k \in ColumnSet |->
        IF \E j \in 1..Len(select) : Columns[select[j]] = k
        THEN decoded[ColLetters[CHOOSE c \in 1..NCols : Columns[c] = k]]
        ELSE Absent]

RowStoreInsert(sh, rows) ==
    LET r == insert_rows(sh, WholeSheet, [i \in 1..Len(rows) |-> RowValues(rows[i])]) IN
    [sheet |-> r.sheet, out |-> Return(PyNone)]

RowStoreSelect(sh, select, f) ==
    LET r == query(sh, select, f) IN
    IF r.kind = "raise" THEN r
    ELSE Return([i \in 1..Len(r.value) |-> NamedRow(r.value[i], select)])

\* one request per matching row and named column
RECURSIVE UpdateRequests(_, _, _)
UpdateRequests(rows, values, i) ==
    IF i > Len(rows) THEN <<>>
    ELSE LET cols == SortedSeq({c \in 1..NCols : values[Columns[c]] # Absent}) IN
         [j \in 1..Len(cols) |->
            BatchUpdateRowsRequest(A1Range(SheetName, Ref(cols[j], rows[i]), NoRef),
                                   <<<<values[Columns[cols[j]]]>>>>)]
         \o UpdateRequests(rows, values, i + 1)

RowStoreUpdate(sh, values, f) ==
    LET rows == MatchingRows(sh, f) IN
    IF rows = <<>> THEN [sheet |-> sh, out |-> Return(0)]
    ELSE LET r == batch_update_rows(sh, UpdateRequests(rows, values, 1), FALSE) IN
         IF r.out.kind = "raise" THEN r
         ELSE [sheet |-> r.sheet, out |-> Return(Len(rows))]

RowStoreDelete(sh, f) ==
    LET rows == MatchingRows(sh, f)
        r == clear(sh, [i \in 1..Len(rows) |->
                          A1Range(SheetName, Ref(1, rows[i]), Ref(NCols, rows[i]))])
    IN  IF r.out.kind = "raise" THEN r
        ELSE [sheet |-> r.sheet, out |-> Return(Len(rows))]

\* the inputs of the row store's specification
RowInputs ==
    {[name |-> PyStr(<<"a">>), age |-> PyInt(1)],
     [name |-> PyStr(<<"b">>), age |-> PyInt(12)],
     [name |-> PyStr(<<"a">>), age |-> PyNone],
     [name |-> PyStr(<<"b">>), age |-> Absent],
     [name |-> PyNone, age |-> PyInt(12)]}
UpdateInputs ==
    {[name |-> PyStr(<<"b">>), age |-> Absent],
     [name |-> Absent, age |-> PyInt(1)],
     [name |-> PyStr(<<"a">>), age |-> PyInt(12)]}
Filters == {NoFilter, Filter(1, "=", PyStr(<<"a">>)), Filter(2, "<", PyInt(12))}
AllColumns == [c \in 1..NCols |-> c]
Selections == {AllColumns, <<1>>}

InitRows ==
    /\ sheet = EmptyTable
    /\ pads = <<>>
    /\ resp = <<>>
    /\ last = NoCall

Insert(rows) ==
    /\ last = NoCall
    /\ LET r == RowStoreInsert(sheet, rows) IN
       /\ sheet' = r.sheet
       /\ last' = [op |-> "insert", rows |-> rows, before |-> sheet, out |-> r.out]
    /\ UNCHANGED <<pads, resp>>

Select(select, f) ==
    /\ last = NoCall
    /\ last' = [op |-> "select", select |-> select, filter |-> f, before |-> sheet,
                out |-> RowStoreSelect(sheet, select, f)]
    /\ UNCHANGED <<sheet, pads, resp>>

Update(values, f) ==
    /\ last = NoCall
    /\ LET r == RowStoreUpdate(sheet, values, f) IN
       /\ sheet' = r.sheet
       /\ last' = [op |-> "update", values |-> values, filter |-> f, before |-> sheet,
                   out |-> r.out]
    /\ UNCHANGED <<pads, resp>>

Delete(f) ==
    /\ last = NoCall
    /\ LET r == RowStoreDelete(sheet, f) IN
       /\ sheet' = r.sheet
       /\ last' = [op |-> "delete", filter |-> f, before |-> sheet, out |-> r.out]
    /\ UNCHANGED <<pads, resp>>

NextRows ==
    \/ \E n \in 1..(MaxRow - LastDataRow(sheet)) : \E rows \in SeqsOf(RowInputs, n) :
          Insert(rows)
    \/ \E select \in Selections, f \in Filters : Select(select, f)
    \/ \E values \in UpdateInputs, f \in Filters : Update(values, f)
    \/ \E f \in Filters : Delete(f)
    \/ Forget

SpecRows == InitRows /\ [][NextRows]_vars

(***************************************************************************)
(* The claims about the row store                                          *)
(***************************************************************************)
\* what select() of all columns, with no filter, returns on a sheet
SelectAll(sh) == RowStoreSelect(sh, AllColumns, NoFilter)

\* a filter on a returned row mapping
RowHolds(row, f) ==
    \/ f = NoFilter
    \/ LET v == row[Columns[f.col]] IN
       IF f.op = "=" THEN v = f.arg
       ELSE v # Absent /\ v # PyNone /\ v.py = "int" /\ v.n < f.arg.n

Matching(rows, f) == SelectSeq(rows, LAMBDA row : RowHolds(row, f))
NotMatching(rows, f) == SelectSeq(rows, LAMBDA row : ~RowHolds(row, f))

\* a row mapping with the named columns set to the new values
Updated(row, values) ==
    [k \in ColumnSet |-> IF values[k] # Absent THEN values[k] ELSE row[k]]

\* C3: rows inserted into an empty table are what a following select of all
\* columns returns: the same rows, in insertion order, with the values that
\* were inserted.
C3_SelectReturnsInsertedRows ==
    (last.op = "insert" /\ SelectAll(last.before) = Return(<<>>)) =>
        SelectAll(sheet) = Return(last.rows)

====
